---- MODULE Spec2Model ----
(***************************************************************************)
(* Model of roux's src/subreddit/mod.rs: the read-only Subreddit client.   *)
(* Strings are sequences of one-character strings, so that format!,        *)
(* push_str and str::contains are computed character by character.         *)
(* Each async call is a task that moves idle -> send -> json -> done, the  *)
(* two middle positions being its two await points.                        *)
(***************************************************************************)
EXTENDS Integers, Sequences, FiniteSets, TLC

VARIABLES name, url, pc, call, reqUrl, shape, resp, result, gets

vars == <<name, url, pc, call, reqUrl, shape, resp, result, gets>>

(***************************************************************************)
(* Bounds of the model.                                                    *)
(***************************************************************************)
\* longest JSON array the server answers with
MaxLen == 2

\* the concurrently running calls on the one client
Tasks == {"t1", "t2"}

(***************************************************************************)
(* String literals of the source, as character sequences.                  *)
(***************************************************************************)
\* "https://www.reddit.com/r/"
REDDIT_R ==
    <<"h","t","t","p","s",":","/","/","w","w","w",".","r","e","d","d","i","t",".","c","o","m","/","r","/">>
\* "/about/moderators/.json"
ABOUT_MODERATORS ==
    <<"/","a","b","o","u","t","/","m","o","d","e","r","a","t","o","r","s","/",".","j","s","o","n">>
\* "/"
SLASH ==
    <<"/">>
\* ".json?limit="
JSON_LIMIT ==
    <<".","j","s","o","n","?","l","i","m","i","t","=">>
\* "&after="
AMP_AFTER ==
    <<"&","a","f","t","e","r","=">>
\* "&before="
AMP_BEFORE ==
    <<"&","b","e","f","o","r","e","=">>
\* "&count="
AMP_COUNT ==
    <<"&","c","o","u","n","t","=">>
\* ".json?"
JSON_Q ==
    <<".","j","s","o","n","?">>
\* "&depth="
AMP_DEPTH ==
    <<"&","d","e","p","t","h","=">>
\* "&limit="
AMP_LIMIT ==
    <<"&","l","i","m","i","t","=">>
\* "comments/"
COMMENTS_SLASH ==
    <<"c","o","m","m","e","n","t","s","/">>
\* "comments"
COMMENTS ==
    <<"c","o","m","m","e","n","t","s">>
\* "hot"
TY_HOT ==
    <<"h","o","t">>
\* "rising"
TY_RISING ==
    <<"r","i","s","i","n","g">>
\* "top"
TY_TOP ==
    <<"t","o","p">>
\* "new"
TY_NEW ==
    <<"n","e","w">>

(***************************************************************************)
(* Inputs the callers draw from.                                           *)
(***************************************************************************)
\* "astolfo"
ASTOLFO ==
    <<"a","s","t","o","l","f","o">>
\* "rust"
RUST ==
    <<"r","u","s","t">>
\* "t3_abc"
T3_ABC ==
    <<"t","3","_","a","b","c">>
\* "t3_xyz"
T3_XYZ ==
    <<"t","3","_","x","y","z">>
\* "abc123"
ABC123 ==
    <<"a","b","c","1","2","3">>

\* Option<T>: None is the empty sequence, Some(x) the one-element sequence
None == <<>>
Some(x) == <<x>>
is_none(o) == Len(o) = 0
unwrap(o) == o[1]

\* subreddit names: the test's name and a subreddit that is itself called "comments"
Names == {ASTOLFO, RUST, COMMENTS}
Limits == {7, 25}
Depths == {None, Some(3)}
OptLimits == {None, Some(25)}
Articles == {ABC123, T3_XYZ}
FeedOption == [after : {None, Some(T3_ABC)},
               before : {None, Some(T3_XYZ)},
               count : {None, Some(5)}]
Options == {None} \cup {Some(o) : o \in FeedOption}

(***************************************************************************)
(* std: Display for u32, String::push_str via \o, str::contains.           *)
(***************************************************************************)
Digit(d) == <<"0","1","2","3","4","5","6","7","8","9">>[d + 1]

RECURSIVE to_string(_)
to_string(n) ==
    IF n < 10 THEN <<Digit(n)>>
    ELSE to_string(n \div 10) \o <<Digit(n % 10)>>

contains(s, pat) ==
    \E i \in 1..(Len(s) - Len(pat) + 1) : SubSeq(s, i, i + Len(pat) - 1) = pat

(***************************************************************************)
(* Construction.                                                           *)
(***************************************************************************)
new_with_http_client(n) ==
    [name |-> n, url |-> REDDIT_R \o n]

(***************************************************************************)
(* URL building: the synchronous prefix of each async fn.                  *)
(***************************************************************************)
moderators_url(self_url) == self_url \o ABOUT_MODERATORS

\* get_feed with `if` in place of `else if`: before is appended after after
get_feed_url_both(self_url, ty, limit, options) ==
    LET url0 == self_url \o SLASH \o ty \o JSON_LIMIT \o to_string(limit)
    IN  IF ~is_none(options)
        THEN LET option == unwrap(options)
                 url1 == IF ~is_none(option.after)
                         THEN url0 \o AMP_AFTER \o unwrap(option.after)
                         ELSE url0
                 url2 == IF ~is_none(option.before)
                         THEN url1 \o AMP_BEFORE \o unwrap(option.before)
                         ELSE url1
             IN  IF ~is_none(option.count)
                 THEN url2 \o AMP_COUNT \o to_string(unwrap(option.count))
                 ELSE url2
        ELSE url0

get_feed_url(self_url, ty, limit, options) ==
    LET url0 == self_url \o SLASH \o ty \o JSON_LIMIT \o to_string(limit)
    IN  IF ~is_none(options)
        THEN LET option == unwrap(options)
                 url1 == IF ~is_none(option.after)
                         THEN url0 \o AMP_AFTER \o unwrap(option.after)
                         ELSE IF ~is_none(option.before)
                         THEN url0 \o AMP_BEFORE \o unwrap(option.before)
                         ELSE url0
             IN  IF ~is_none(option.count)
                 THEN url1 \o AMP_COUNT \o to_string(unwrap(option.count))
                 ELSE url1
        ELSE url0

\* get_comment_feed with the two `if`s swapped: limit is pushed before depth
get_comment_feed_url_swapped(self_url, ty, depth, limit) ==
    LET url0 == self_url \o SLASH \o ty \o JSON_Q
        url1 == IF ~is_none(limit)
                THEN url0 \o AMP_LIMIT \o to_string(unwrap(limit))
                ELSE url0
    IN  IF ~is_none(depth)
        THEN url1 \o AMP_DEPTH \o to_string(unwrap(depth))
        ELSE url1

get_comment_feed_url(self_url, ty, depth, limit) ==
    LET url0 == self_url \o SLASH \o ty \o JSON_Q
        url1 == IF ~is_none(depth)
                THEN url0 \o AMP_DEPTH \o to_string(unwrap(depth))
                ELSE url0
    IN  IF ~is_none(limit)
        THEN url1 \o AMP_LIMIT \o to_string(unwrap(limit))
        ELSE url1

\* the branch of get_comment_feed: which type the body is decoded into
get_comment_feed_shape(u) ==
    IF contains(u, COMMENTS_SLASH) THEN "Vec<SubredditComments>"
    ELSE "SubredditComments"

(***************************************************************************)
(* Response bodies and their decoding (serde, by shape).                   *)
(***************************************************************************)
NoItems == <<>>
Object(sh, id) == [json |-> "object", shape |-> sh, id |-> id, items |-> NoItems]
Array(items) == [json |-> "array", shape |-> "-", id |-> 0, items |-> items]
Invalid == [json |-> "invalid", shape |-> "-", id |-> 0, items |-> NoItems]
NoResp == [json |-> "none", shape |-> "-", id |-> 0, items |-> NoItems]

\* what an array holds: comment listings, or an object of another shape
Elements == {Object("SubredditComments", 1), Object("SubredditComments", 2),
             Object("Moderators", 1)}
Objects == {Object("Moderators", 1), Object("Submissions", 1),
            Object("SubredditComments", 1), Object("SubredditComments", 2)}
Arrays == {Array(s) : s \in UNION {[1..n -> Elements] : n \in 0..MaxLen}}
Bodies == Objects \cup Arrays \cup {Invalid}

\* the typed entity a body of shape sh decodes into
Entity(sh, id) == [shape |-> sh, id |-> id]
NoEntity == Entity("-", 0)

Ok(v) == [kind |-> "Ok", val |-> v, err |-> "-"]
Err(e) == [kind |-> "Err", val |-> NoEntity, err |-> e]
Panic == [kind |-> "Panic", val |-> NoEntity, err |-> "unwrap on None"]
NoResult == [kind |-> "-", val |-> NoEntity, err |-> "-"]

\* Response::json::<T>() for a struct T
json(body, T) ==
    IF body.json = "object" /\ body.shape = T
    THEN [ok |-> TRUE, val |-> Entity(T, body.id)]
    ELSE [ok |-> FALSE, val |-> NoEntity]

\* Response::json::<Vec<T>>()
json_vec(body, T) ==
    IF body.json = "array"
       /\ \A i \in 1..Len(body.items) : json(body.items[i], T).ok
    THEN [ok |-> TRUE,
          val |-> [i \in 1..Len(body.items) |-> json(body.items[i], T).val]]
    ELSE [ok |-> FALSE, val |-> <<>>]

\* the first element in place of the last (comments.remove(0))
pop_first(v) == IF Len(v) = 0 THEN None ELSE Some(v[1])

\* Vec::pop: the last element, if any
pop(v) == IF Len(v) = 0 THEN None ELSE Some(v[Len(v)])

(***************************************************************************)
(* State.                                                                  *)
(***************************************************************************)
NoCall == [op |-> "-", article |-> <<>>, limit |-> 0, options |-> None,
           depth |-> None, olimit |-> None]

Init ==
    /\ \E n \in Names :
         /\ name = new_with_http_client(n).name
         /\ url = new_with_http_client(n).url
    /\ pc = [t \in Tasks |-> "idle"]
    /\ call = [t \in Tasks |-> NoCall]
    /\ reqUrl = [t \in Tasks |-> <<>>]
    /\ shape = [t \in Tasks |-> "-"]
    /\ resp = [t \in Tasks |-> NoResp]
    /\ result = [t \in Tasks |-> NoResult]
    /\ gets = [t \in Tasks |-> 0]

\* self.client.get(u).send(): the one place a request leaves the client
Get(t, c, u, T) ==
    /\ pc[t] = "idle"
    /\ pc' = [pc EXCEPT ![t] = "send"]
    /\ call' = [call EXCEPT ![t] = c]
    /\ reqUrl' = [reqUrl EXCEPT ![t] = u]
    /\ shape' = [shape EXCEPT ![t] = T]
    /\ gets' = [gets EXCEPT ![t] = @ + 1]
    /\ UNCHANGED <<name, url, resp, result>>

moderators(t) ==
    Get(t, [NoCall EXCEPT !.op = "moderators"], moderators_url(url), "Moderators")

\* get_feed pushing the query onto self.url instead of onto a fresh String
get_feed_push_self(t, op, ty, limit, options) ==
    /\ pc[t] = "idle"
    /\ pc' = [pc EXCEPT ![t] = "send"]
    /\ call' = [call EXCEPT ![t] =
                  [NoCall EXCEPT !.op = op, !.limit = limit, !.options = options]]
    /\ url' = get_feed_url(url, ty, limit, options)
    /\ reqUrl' = [reqUrl EXCEPT ![t] = url']
    /\ shape' = [shape EXCEPT ![t] = "Submissions"]
    /\ gets' = [gets EXCEPT ![t] = @ + 1]
    /\ UNCHANGED <<name, resp, result>>

get_feed(t, op, ty, limit, options) ==
    Get(t, [NoCall EXCEPT !.op = op, !.limit = limit, !.options = options],
        get_feed_url(url, ty, limit, options), "Submissions")

get_comment_feed(t, op, article, ty, depth, limit) ==
    LET u == get_comment_feed_url(url, ty, depth, limit)
    IN  Get(t, [NoCall EXCEPT !.op = op, !.article = article,
                              !.depth = depth, !.olimit = limit],
            u, get_comment_feed_shape(u))

hot(t, limit, options) == get_feed(t, "hot", TY_HOT, limit, options)

rising(t, limit, options) == get_feed(t, "rising", TY_RISING, limit, options)

top(t, limit, options) == get_feed(t, "top", TY_TOP, limit, options)

latest(t, limit, options) == get_feed(t, "latest", TY_NEW, limit, options)

latest_comments(t, depth, limit) ==
    get_comment_feed(t, "latest_comments", <<>>, COMMENTS, depth, limit)

article_comments(t, article, depth, limit) ==
    get_comment_feed(t, "article_comments", article, COMMENTS_SLASH \o article,
                     depth, limit)

\* the answer kept in one slot shared by every call on the client
send_ok_shared(t, body) ==
    /\ pc[t] = "send"
    /\ resp' = [o \in Tasks |-> IF pc[o] \in {"send", "json"} THEN body ELSE resp[o]]
    /\ pc' = [pc EXCEPT ![t] = "json"]
    /\ UNCHANGED <<name, url, call, reqUrl, shape, result, gets>>

\* `.send().await?`: the transport answers with a body ...
send_ok(t, body) ==
    /\ pc[t] = "send"
    /\ resp' = [resp EXCEPT ![t] = body]
    /\ pc' = [pc EXCEPT ![t] = "json"]
    /\ UNCHANGED <<name, url, call, reqUrl, shape, result, gets>>

\* a failed send answered by sending the request again
send_err_retry(t) ==
    /\ pc[t] = "send"
    /\ gets' = [gets EXCEPT ![t] = @ + 1]
    /\ UNCHANGED <<name, url, pc, call, reqUrl, shape, resp, result>>

\* ... or fails, and `?` returns the error
send_err(t) ==
    /\ pc[t] = "send"
    /\ result' = [result EXCEPT ![t] = Err("transport")]
    /\ pc' = [pc EXCEPT ![t] = "done"]
    /\ UNCHANGED <<name, url, call, reqUrl, shape, resp, gets>>

\* `.json::<T>().await?` then Ok(..), in moderators, get_feed and the
\* else-branch of get_comment_feed
json_struct(t) ==
    /\ pc[t] = "json"
    /\ shape[t] # "Vec<SubredditComments>"
    /\ LET d == json(resp[t], shape[t])
       IN  result' = [result EXCEPT ![t] = IF d.ok THEN Ok(d.val) ELSE Err("decode")]
    /\ pc' = [pc EXCEPT ![t] = "done"]
    /\ UNCHANGED <<name, url, call, reqUrl, shape, resp, gets>>

\* `.json::<Vec<SubredditComments>>().await?` then Ok(comments.pop().unwrap())
json_vec_pop(t) ==
    /\ pc[t] = "json"
    /\ shape[t] = "Vec<SubredditComments>"
    /\ LET d == json_vec(resp[t], "SubredditComments")
       IN  result' = [result EXCEPT ![t] =
                        IF ~d.ok THEN Err("decode")
                        ELSE IF is_none(pop(d.val)) THEN Panic
                        ELSE Ok(unwrap(pop(d.val)))]
    /\ pc' = [pc EXCEPT ![t] = "done"]
    /\ UNCHANGED <<name, url, call, reqUrl, shape, resp, gets>>

\* the caller takes the result; the task is free for the next call
Return(t) ==
    /\ pc[t] = "done"
    /\ pc' = [pc EXCEPT ![t] = "idle"]
    /\ call' = [call EXCEPT ![t] = NoCall]
    /\ reqUrl' = [reqUrl EXCEPT ![t] = <<>>]
    /\ shape' = [shape EXCEPT ![t] = "-"]
    /\ resp' = [resp EXCEPT ![t] = NoResp]
    /\ result' = [result EXCEPT ![t] = NoResult]
    /\ gets' = [gets EXCEPT ![t] = 0]
    /\ UNCHANGED <<name, url>>

\* the steps of a call under way, for bodies drawn from B
Step(t, B) ==
    \/ \E body \in B : send_ok(t, body)
    \/ send_err(t)
    \/ json_struct(t)
    \/ json_vec_pop(t)
    \/ Return(t)

(***************************************************************************)
(* Spec: calls made one after another (each awaited before the next), as   *)
(* in tests::test_no_auth, over the full input sets.                       *)
(***************************************************************************)
\* no other call is under way
Alone(t) == \A o \in Tasks \ {t} : pc[o] = "idle"

Next ==
    \E t \in Tasks :
        \/ Alone(t) /\ moderators(t)
        \/ \E limit \in Limits, options \in Options : Alone(t) /\ hot(t, limit, options)
        \/ \E limit \in Limits, options \in Options : Alone(t) /\ rising(t, limit, options)
        \/ \E limit \in Limits, options \in Options : Alone(t) /\ top(t, limit, options)
        \/ \E limit \in Limits, options \in Options : Alone(t) /\ latest(t, limit, options)
        \/ \E depth \in Depths, limit \in OptLimits :
              Alone(t) /\ latest_comments(t, depth, limit)
        \/ \E article \in Articles, depth \in Depths, limit \in OptLimits :
              Alone(t) /\ article_comments(t, article, depth, limit)
        \/ Step(t, Bodies)

Spec == Init /\ [][Next]_vars

(***************************************************************************)
(* SpecConc: the calls run concurrently and their await points interleave  *)
(* freely, over smaller input sets.                                        *)
(***************************************************************************)
ConcLimits == {25}
ConcOptions == {None, Some([after |-> Some(T3_ABC), before |-> None, count |-> None])}
ConcDepths == {None}
ConcOptLimits == {Some(25)}
ConcArticles == {ABC123}
ConcBodies ==
    Objects \cup {Invalid, Array(<<>>),
                  Array(<<Object("SubredditComments", 1), Object("SubredditComments", 2)>>)}

NextConc ==
    \E t \in Tasks :
        \/ moderators(t)
        \/ \E limit \in ConcLimits, options \in ConcOptions : hot(t, limit, options)
        \/ \E limit \in ConcLimits, options \in ConcOptions : rising(t, limit, options)
        \/ \E limit \in ConcLimits, options \in ConcOptions : top(t, limit, options)
        \/ \E limit \in ConcLimits, options \in ConcOptions : latest(t, limit, options)
        \/ \E depth \in ConcDepths, limit \in ConcOptLimits : latest_comments(t, depth, limit)
        \/ \E article \in ConcArticles, depth \in ConcDepths, limit \in ConcOptLimits :
              article_comments(t, article, depth, limit)
        \/ Step(t, ConcBodies)

SpecConc == Init /\ [][NextConc]_vars

(***************************************************************************)
(* The properties.                                                         *)
(***************************************************************************)
Active(t) == pc[t] # "idle"
Done(t) == pc[t] = "done"
FeedOps == {"hot", "rising", "top", "latest"}
CommentOps == {"latest_comments", "article_comments"}

ListingType(op) ==
    CASE op = "hot" -> TY_HOT
      [] op = "rising" -> TY_RISING
      [] op = "top" -> TY_TOP
      [] op = "latest" -> TY_NEW

\* the query of a feed request, as the documentation words it
CursorPart(options) ==
    IF options = None THEN <<>>
    ELSE IF options[1].after # None THEN AMP_AFTER \o options[1].after[1]
    ELSE IF options[1].before # None THEN AMP_BEFORE \o options[1].before[1]
    ELSE <<>>

CountPart(options) ==
    IF options = None \/ options[1].count = None THEN <<>>
    ELSE AMP_COUNT \o to_string(options[1].count[1])

CommentsPath(c) ==
    IF c.op = "latest_comments" THEN COMMENTS ELSE COMMENTS_SLASH \o c.article

\* the URL of call c on the client constructed with name n
ExpectedUrl(n, c) ==
    CASE c.op = "moderators" -> REDDIT_R \o n \o ABOUT_MODERATORS
      [] c.op \in FeedOps ->
           REDDIT_R \o n \o SLASH \o ListingType(c.op) \o JSON_LIMIT
               \o to_string(c.limit) \o CursorPart(c.options) \o CountPart(c.options)
      [] c.op \in CommentOps ->
           REDDIT_R \o n \o SLASH \o CommentsPath(c) \o JSON_Q
               \o (IF c.depth = None THEN <<>> ELSE AMP_DEPTH \o to_string(c.depth[1]))
               \o (IF c.olimit = None THEN <<>> ELSE AMP_LIMIT \o to_string(c.olimit[1]))

\* the body has the shape the operation's documentation expects
Matches(op, body) ==
    CASE op = "moderators" -> body = Object("Moderators", body.id)
      [] op \in FeedOps -> body = Object("Submissions", body.id)
      [] op = "latest_comments" -> body = Object("SubredditComments", body.id)
      [] op = "article_comments" ->
           /\ body.json = "array"
           /\ Len(body.items) >= 1
           /\ \A i \in 1..Len(body.items) :
                body.items[i] = Object("SubredditComments", body.items[i].id)
      [] OTHER -> FALSE

BothCursors(c) ==
    /\ c.options # None
    /\ c.options[1].after # None
    /\ c.options[1].before # None

\* C1: the URL a feed call requests is
\* https://www.reddit.com/r/<name>/<listing_type>.json?limit=<limit>, then
\* &after=<after> if after is set, otherwise &before=<before> if before is set,
\* then &count=<count> if count is set; it never carries both after and before,
\* and carries after alone when both are set.
C1_FeedUrl ==
    \A t \in Tasks :
        (Active(t) /\ call[t].op \in FeedOps) =>
            /\ reqUrl[t] = ExpectedUrl(name, call[t])
            /\ ~(contains(reqUrl[t], AMP_AFTER) /\ contains(reqUrl[t], AMP_BEFORE))
            /\ BothCursors(call[t]) =>
                 /\ contains(reqUrl[t], AMP_AFTER \o call[t].options[1].after[1])
                 /\ ~contains(reqUrl[t], AMP_BEFORE)

C1_Witness ==
    \E t \in Tasks :
        /\ pc[t] = "send"
        /\ call[t].op = "top"
        /\ BothCursors(call[t])
        /\ call[t].options[1].count # None

\* C2: the URL a comment call requests is the base URL, /comments.json? or
\* /comments/<article_id>.json?, then &depth=<depth> if depth is set, then
\* &limit=<limit> if limit is set, and nothing else.
C2_CommentUrl ==
    \A t \in Tasks :
        (Active(t) /\ call[t].op \in CommentOps) =>
            reqUrl[t] = ExpectedUrl(name, call[t])

C2_Witness ==
    \E t \in Tasks :
        /\ pc[t] = "send"
        /\ call[t].op = "article_comments"
        /\ call[t].depth # None
        /\ call[t].olimit # None

\* C3: article_comments decodes the response as a sequence of comment trees
\* and latest_comments decodes it as a single comment tree, for every name.
C3_BranchFollowsArticle ==
    \A t \in Tasks :
        Active(t) =>
            /\ call[t].op = "article_comments" => shape[t] = "Vec<SubredditComments>"
            /\ call[t].op = "latest_comments" => shape[t] = "SubredditComments"

\* C4: article_comments answered by an empty sequence returns an Err.
C4_EmptySeqIsErr ==
    \A t \in Tasks :
        (Done(t) /\ call[t].op = "article_comments" /\ resp[t] = Array(<<>>)) =>
            result[t].kind = "Err"

C6_OneGet ==
    \A t \in Tasks :
        /\ gets[t] = IF Active(t) THEN 1 ELSE 0
        /\ (Done(t) /\ resp[t] = NoResp) => result[t] = Err("transport")
        /\ (Done(t) /\ result[t].kind = "Err") => gets[t] = 1

C6_Witness ==
    \E t \in Tasks :
        /\ Done(t)
        /\ result[t] = Err("transport")
        /\ gets[t] = 1

\* C7: whenever the transport answers and the body has the shape the
\* operation expects, the call returns Ok, for every subreddit name.
C7_ShapeMatchIsOk ==
    \A t \in Tasks :
        (/\ Done(t)
         /\ resp[t] # NoResp
         /\ Matches(call[t].op, resp[t])
         /\ call[t].op \in CommentOps => (call[t].depth = None /\ call[t].olimit # None))
        => result[t].kind = "Ok"

\* the body decodes into the type T of the branch taken
Decodable(T, body) ==
    IF T = "Vec<SubredditComments>" THEN json_vec(body, "SubredditComments").ok
    ELSE json(body, T).ok

\* C8: every call ends either in a populated entity or in an error; a failed
\* send or a body that does not decode gives an error.
C8_OkOrErr ==
    \A t \in Tasks :
        Done(t) =>
            /\ result[t].kind \in {"Ok", "Err"}
            /\ resp[t] = NoResp => result[t].kind = "Err"
            /\ (resp[t] # NoResp /\ ~Decodable(shape[t], resp[t])) => result[t].kind = "Err"
            /\ result[t].kind = "Ok" => result[t].val # NoEntity

\* C9: the client's name and base URL never change, the base URL is
\* https://www.reddit.com/r/<name>, and the URL of a call under way is the one
\* its own arguments and the construction name give.
C9_Immutable ==
    /\ [](/\ name \in Names
          /\ url = REDDIT_R \o name
          /\ \A t \in Tasks : Active(t) => reqUrl[t] = ExpectedUrl(name, call[t]))
    /\ [][name' = name /\ url' = url]_vars

C9_Witness ==
    \E t \in Tasks :
        /\ Done(t)
        /\ call[t].op \in FeedOps
        /\ call[t].options # None
        /\ result[t].kind = "Err"

\* the result of decoding body into the type T chosen for the call
Decoding(T, body) ==
    IF body = NoResp THEN Err("transport")
    ELSE IF T = "Vec<SubredditComments>"
    THEN LET d == json_vec(body, "SubredditComments")
         IN  IF ~d.ok THEN Err("decode")
             ELSE IF Len(d.val) = 0 THEN Panic
             ELSE Ok(d.val[Len(d.val)])
    ELSE LET d == json(body, T)
         IN  IF d.ok THEN Ok(d.val) ELSE Err("decode")

====
